---------------------------- MODULE Spec2Model ----------------------------
(***************************************************************************)
(* GrebRef browser extension: the content-script overlay (src/content.tsx) *)
(* and the background message handler (src/background.ts).                 *)
(*                                                                         *)
(* Optional values (T | null) are tuples: <<>> is null, <<v>> is v.        *)
(* JavaScript numbers that can be non-finite are records [t, v]:           *)
(* t = "fin" with the integer v, t = "nan", or t = "inf" with the sign v.  *)
(***************************************************************************)
EXTENDS Integers, Sequences, FiniteSets, TLC

VARIABLES
  mode,         \* useState<Mode | null>: "none" | "image" | "dom" | "fullpage"
  rect,         \* useState rect: <<>> or <<[x, y, w, h]>>
  drag,         \* useState drag: <<>> or <<[startX, startY]>>
  preview,      \* useState preview (image data URL): <<>> or <<dataUrl>>
  domPreview,   \* useState domPreview (serialized HTML): <<>> or <<html>>
  isCapturing,  \* useState isCapturing
  hoverEl,      \* useState hoverEl: <<>> or <<element>>
  pickedEl,     \* useState pickedEl
  innerWidth,   \* window.innerWidth (the page's environment)
  tasks,        \* the capture attempts started so far, each an async run
  alerts,       \* the alert() calls made so far, in order
  serPc,        \* serializeWithStyles: "idle" | "picked" | "loop" | "done"
  serLive,      \* the live subtree of rootEl
  serSt,        \* its locals: <<>> or <<[stack, clone, inlined]>>
  serOut,       \* its return value: <<>> or <<html>>
  rPc,          \* the injected captureFullPage: "idle" | "injected" |
                \* "resolved" | "rejected" | "responded"
  rDoc,         \* the document it runs in: [nodes, extents]
  rOut,         \* what its promise resolved to: <<>> or <<[ops, dataUrl, pageDimensions]>>
  rRes          \* what handleFullPageCapture passed to sendResponse: <<>> or <<response>>

overlayVars == <<mode, rect, drag, preview, domPreview, isCapturing,
                 hoverEl, pickedEl, innerWidth, tasks, alerts>>

serVars == <<serPc, serLive, serSt, serOut>>

rasterVars == <<rPc, rDoc, rOut, rRes>>

nonOverlayVars == <<serVars, rasterVars>>

vars == <<overlayVars, serVars, rasterVars>>

----------------------------------------------------------------------------
(* Bounds and input sets *)

\* capture attempts started in one behaviour of Spec
MaxCaptures == 2

None == <<>>
Some(v) == <<v>>

\* mouse positions (clientX, clientY) of the overlay state machine: where a
\* drag starts, and where the pointer moves to
DownPoints == {<<100, 200>>}
Points == DownPoints \cup {<<150, 260>>}
\* mouse positions of the single-capture specification
CropXs == {100, 101, 150}
CropYs == {200, 203, 260}
CropPoints == CropXs \X CropYs

\* window.innerWidth values; 0 is a collapsed viewport
InnerWidths == {1000, 0}

\* chrome.runtime.lastError.message / rejection messages
ErrMsgs == {"No tab with id", "Cannot access contents of the page"}

----------------------------------------------------------------------------
(* Data URLs: a bitmap of a given size; a crop also records the drawImage  *)
(* call that filled it.                                                     *)

Bitmap(kind, w, h) == [kind |-> kind, w |-> w, h |-> h, draw |-> <<>>]

\* what chrome.tabs.captureVisibleTab can return
ViewportBitmaps == {Bitmap("viewport", 2000, 4000)}
CropBitmaps == ViewportBitmaps \cup
  {Bitmap("viewport", 1500, 3000), Bitmap("viewport", 333, 666)}

\* what the injected captureFullPage can resolve to
PageResults == {[dataUrl |-> Bitmap("page", 1000, 3000),
                 pageDimensions |-> [width |-> 1000, height |-> 3000]]}


----------------------------------------------------------------------------
(* Region crop arithmetic: img.onload in onUp, content.tsx 197-223 *)

Fin(n) == [t |-> "fin", v |-> n]
NaN == [t |-> "nan", v |-> 0]
Inf(s) == [t |-> "inf", v |-> s]
IsFinite(a) == a.t = "fin"

\* const scale = img.width / window.innerWidth, kept as the exact fraction
\* n/d; d = 0 makes it Infinity (n > 0) or NaN (n = 0)
resolveScale(imgWidth, logicalWidth) == [n |-> imgWidth, d |-> logicalWidth]

\* a mutant of ScaleRound: truncation instead of rounding
ScaleFloor(a, scale) ==
  IF scale.d # 0 THEN Fin((a * scale.n) \div scale.d)
  ELSE IF scale.n = 0 \/ a = 0 THEN NaN
  ELSE Inf(IF a > 0 THEN 1 ELSE -1)

\* Math.round(a * scale) for an integer a: floor(a * n / d + 1/2);
\* a * Infinity is NaN for a = 0 and a signed Infinity otherwise
ScaleRound(a, scale) ==
  IF scale.d # 0 THEN Fin((2 * a * scale.n + scale.d) \div (2 * scale.d))
  ELSE IF scale.n = 0 \/ a = 0 THEN NaN
  ELSE Inf(IF a > 0 THEN 1 ELSE -1)

\* Math.max(1, a)
MathMax1(a) ==
  IF a.t = "nan" THEN NaN
  ELSE IF a.t = "inf" THEN (IF a.v > 0 THEN a ELSE Fin(1))
  ELSE Fin(IF a.v > 1 THEN a.v ELSE 1)

\* a mutant of CanvasSize: the canvas takes the rounded size unclamped
CanvasSizeUnclamped(a) == IF IsFinite(a) /\ a.v >= 0 THEN a.v ELSE 0

\* canvas.width = Math.max(1, sw): the setter takes an unsigned long, so a
\* non-finite value becomes 0
CanvasSize(a) ==
  LET m == MathMax1(a) IN IF IsFinite(m) THEN m.v ELSE 0

\* ctx.drawImage(img, sx, sy, sw, sh, 0, 0, sw, sh): the call as made; it
\* copies pixels only when every argument is finite and sw, sh are not 0
drawImage(img, sx, sy, sw, sh) ==
  [img |-> [w |-> img.w, h |-> img.h],
   sx |-> sx, sy |-> sy, sw |-> sw, sh |-> sh,
   dx |-> 0, dy |-> 0, dw |-> sw, dh |-> sh,
   painted |-> /\ \A a \in {sx, sy, sw, sh} : IsFinite(a)
               /\ sw.v # 0 /\ sh.v # 0]

\* the body of img.onload up to canvas.toDataURL: the cropped data URL
cropOnLoad(r, img, logicalWidth) ==
  LET scale == resolveScale(img.w, logicalWidth)
      sx == ScaleRound(r.x, scale)
      sy == ScaleRound(r.y, scale)
      sw == ScaleRound(r.w, scale)
      sh == ScaleRound(r.h, scale)
  IN  [kind |-> "crop", w |-> CanvasSize(sw), h |-> CanvasSize(sh),
       draw |-> <<drawImage(img, sx, sy, sw, sh)>>]

----------------------------------------------------------------------------
(* Capture attempts: one record per run of onUp / captureFullPage together *)
(* with the background handler serving its message.                         *)
(*   pc: "delay"      onUp awaits the 100 ms timeout                        *)
(*       "sent"       chrome.runtime.sendMessage is in flight               *)
(*       "bg_capture" handleCapture awaits captureVisibleTab                *)
(*       "bg_tabget"  handleCapture awaits chrome.tabs.get                  *)
(*       "bg_script"  handleFullPageCapture awaits executeScript            *)
(*       "responded"  sendResponse was called, the reply is in flight       *)
(*       "decoding"   img.src is set, onload/onerror pending                *)
(*       "done" | "failed" | "error" | "threw"   the run has ended          *)
(*   fault: the message of the error thrown in the handler's try block      *)
(*   cancelled: history, no state of the program: resetAll ran while the    *)
(*       run was under way                                                  *)

NewTask(kind, r) ==
  [kind |-> kind, pc |-> IF kind = "region" THEN "delay" ELSE "sent",
   rect |-> r, dataUrl |-> None, fault |-> None, res |-> None, nresp |-> 0,
   cancelled |-> FALSE]

Ended == {"done", "failed", "error", "threw"}

\* a run that has ended: its closure (rect, res) is dropped
EndTask(t, pc) ==
  [t EXCEPT !.pc = pc, !.rect = None, !.res = None, !.fault = None,
            !.cancelled = FALSE]

OkResponse(dataUrl, dims) ==
  [ok |-> TRUE, dataUrl |-> Some(dataUrl), pageDimensions |-> dims, error |-> ""]
ErrResponse(msg) ==
  [ok |-> FALSE, dataUrl |-> None, pageDimensions |-> None, error |-> msg]

Alert(prefix, msg) == [prefix |-> prefix, msg |-> msg]

OverlayInit ==
  /\ mode = "none"
  /\ rect = None
  /\ drag = None
  /\ preview = None
  /\ domPreview = None
  /\ isCapturing = FALSE
  /\ hoverEl = None
  /\ pickedEl = None
  /\ innerWidth = 1000
  /\ tasks = <<>>
  /\ alerts = <<>>

SerIdle ==
  /\ serPc = "idle"
  /\ serLive = <<>>
  /\ serSt = None
  /\ serOut = None

RasterIdle ==
  /\ rPc = "idle"
  /\ rDoc = <<>>
  /\ rOut = None
  /\ rRes = None

Init == OverlayInit /\ SerIdle /\ RasterIdle

----------------------------------------------------------------------------
(* DOM subtree serializer: content.tsx 555-609.                            *)
(* Strings that the code takes apart or concatenates are tuples of         *)
(* one-character strings.  A DOM tree is a function from child-index paths *)
(* (<<>> is the root, <<2, 1>> the first child of the second child) to     *)
(* element records.                                                        *)

\* elements of a serialized subtree
MaxNodes == 4

UpperChars == <<"A", "B", "C", "D", "E", "F", "G", "H", "I", "J", "K", "L", "M",
                "N", "O", "P", "Q", "R", "S", "T", "U", "V", "W", "X", "Y", "Z">>
LowerChars == <<"a", "b", "c", "d", "e", "f", "g", "h", "i", "j", "k", "l", "m",
                "n", "o", "p", "q", "r", "s", "t", "u", "v", "w", "x", "y", "z">>

IsUpper(c) == \E k \in 1..26 : UpperChars[k] = c
toLowerCase(c) == LowerChars[CHOOSE k \in 1..26 : UpperChars[k] = c]

\* a mutant of camelToKebab: the hyphen is inserted, the letter keeps its case
RECURSIVE camelToKebabKeepCase(_)
camelToKebabKeepCase(s) ==
  IF s = <<>> THEN <<>>
  ELSE (IF IsUpper(Head(s)) THEN <<"-", Head(s)>> ELSE <<Head(s)>>)
       \o camelToKebabKeepCase(Tail(s))

\* s.replace(/[A-Z]/g, (m) => "-" + m.toLowerCase())
RECURSIVE camelToKebab(_)
camelToKebab(s) ==
  IF s = <<>> THEN <<>>
  ELSE (IF IsUpper(Head(s)) THEN <<"-", toLowerCase(Head(s))>> ELSE <<Head(s)>>)
       \o camelToKebab(Tail(s))

\* const styleProps = [...]
styleProps ==
  <<
    <<"p", "o", "s", "i", "t", "i", "o", "n">>,   \* position
    <<"d", "i", "s", "p", "l", "a", "y">>,   \* display
    <<"f", "l", "e", "x">>,   \* flex
    <<"f", "l", "e", "x", "D", "i", "r", "e", "c", "t", "i", "o", "n">>,   \* flexDirection
    <<"j", "u", "s", "t", "i", "f", "y", "C", "o", "n", "t", "e", "n", "t">>,   \* justifyContent
    <<"a", "l", "i", "g", "n", "I", "t", "e", "m", "s">>,   \* alignItems
    <<"g", "a", "p">>,   \* gap
    <<"w", "i", "d", "t", "h">>,   \* width
    <<"h", "e", "i", "g", "h", "t">>,   \* height
    <<"m", "i", "n", "W", "i", "d", "t", "h">>,   \* minWidth
    <<"m", "i", "n", "H", "e", "i", "g", "h", "t">>,   \* minHeight
    <<"m", "a", "x", "W", "i", "d", "t", "h">>,   \* maxWidth
    <<"m", "a", "x", "H", "e", "i", "g", "h", "t">>,   \* maxHeight
    <<"p", "a", "d", "d", "i", "n", "g">>,   \* padding
    <<"p", "a", "d", "d", "i", "n", "g", "T", "o", "p">>,   \* paddingTop
    <<"p", "a", "d", "d", "i", "n", "g", "R", "i", "g", "h", "t">>,   \* paddingRight
    <<"p", "a", "d", "d", "i", "n", "g", "B", "o", "t", "t", "o", "m">>,   \* paddingBottom
    <<"p", "a", "d", "d", "i", "n", "g", "L", "e", "f", "t">>,   \* paddingLeft
    <<"m", "a", "r", "g", "i", "n">>,   \* margin
    <<"m", "a", "r", "g", "i", "n", "T", "o", "p">>,   \* marginTop
    <<"m", "a", "r", "g", "i", "n", "R", "i", "g", "h", "t">>,   \* marginRight
    <<"m", "a", "r", "g", "i", "n", "B", "o", "t", "t", "o", "m">>,   \* marginBottom
    <<"m", "a", "r", "g", "i", "n", "L", "e", "f", "t">>,   \* marginLeft
    <<"b", "o", "r", "d", "e", "r">>,   \* border
    <<"b", "o", "r", "d", "e", "r", "R", "a", "d", "i", "u", "s">>,   \* borderRadius
    <<"b", "a", "c", "k", "g", "r", "o", "u", "n", "d">>,   \* background
    <<"b", "a", "c", "k", "g", "r", "o", "u", "n", "d", "C", "o", "l", "o", "r">>,   \* backgroundColor
    <<"b", "a", "c", "k", "g", "r", "o", "u", "n", "d", "I", "m", "a", "g", "e">>,   \* backgroundImage
    <<"b", "a", "c", "k", "g", "r", "o", "u", "n", "d", "S", "i", "z", "e">>,   \* backgroundSize
    <<"b", "a", "c", "k", "g", "r", "o", "u", "n", "d", "P", "o", "s", "i", "t", "i", "o", "n">>,   \* backgroundPosition
    <<"b", "a", "c", "k", "g", "r", "o", "u", "n", "d", "R", "e", "p", "e", "a", "t">>,   \* backgroundRepeat
    <<"c", "o", "l", "o", "r">>,   \* color
    <<"f", "o", "n", "t">>,   \* font
    <<"f", "o", "n", "t", "F", "a", "m", "i", "l", "y">>,   \* fontFamily
    <<"f", "o", "n", "t", "S", "i", "z", "e">>,   \* fontSize
    <<"f", "o", "n", "t", "W", "e", "i", "g", "h", "t">>,   \* fontWeight
    <<"l", "i", "n", "e", "H", "e", "i", "g", "h", "t">>,   \* lineHeight
    <<"l", "e", "t", "t", "e", "r", "S", "p", "a", "c", "i", "n", "g">>,   \* letterSpacing
    <<"t", "e", "x", "t", "A", "l", "i", "g", "n">>,   \* textAlign
    <<"t", "e", "x", "t", "D", "e", "c", "o", "r", "a", "t", "i", "o", "n">>,   \* textDecoration
    <<"b", "o", "x", "S", "h", "a", "d", "o", "w">>,   \* boxShadow
    <<"o", "v", "e", "r", "f", "l", "o", "w">>,   \* overflow
    <<"o", "v", "e", "r", "f", "l", "o", "w", "X">>,   \* overflowX
    <<"o", "v", "e", "r", "f", "l", "o", "w", "Y">>,   \* overflowY
    <<"o", "b", "j", "e", "c", "t", "F", "i", "t">>,   \* objectFit
    <<"o", "b", "j", "e", "c", "t", "P", "o", "s", "i", "t", "i", "o", "n">>,   \* objectPosition
    <<"o", "p", "a", "c", "i", "t", "y">>,   \* opacity
    <<"t", "r", "a", "n", "s", "f", "o", "r", "m">>,   \* transform
    <<"t", "r", "a", "n", "s", "i", "t", "i", "o", "n">>,   \* transition
    <<"w", "h", "i", "t", "e", "S", "p", "a", "c", "e">>   \* whiteSpace
  >>

\* (cs as any)[p]: the computed value, "" (<<>>) when the style has none
computedValue(cs, p) == IF p \in DOMAIN cs THEN cs[p] ELSE <<>>

\* v ? `${camelToKebab(p)}:${v};` : ""
declaration(p, v) ==
  IF v # <<>> THEN camelToKebab(p) \o <<":">> \o v \o <<";">> ELSE <<>>

\* styleProps.map(...).join(""), from the k-th property on
RECURSIVE styleStrFrom(_, _)
styleStrFrom(cs, k) ==
  IF k > Len(styleProps) THEN <<>>
  ELSE declaration(styleProps[k], computedValue(cs, styleProps[k]))
       \o styleStrFrom(cs, k + 1)

styleStr(cs) == styleStrFrom(cs, 1)

\* a mutant of inlineStyle: the extracted declarations replace the attribute
inlineStyleReplace(attr, cs) == Some(styleStr(cs))

\* dst.setAttribute("style", (dst.getAttribute("style") ?? "") + styleStr)
inlineStyle(attr, cs) ==
  Some((IF attr = None THEN <<>> ELSE attr[1]) \o styleStr(cs))

\* inlineComputed(src, dst): the clone element after the call; an image or
\* a link also takes the live element's resolved src / href
inlineComputed(src, dst) ==
  [dst EXCEPT
     !.style = inlineStyle(dst.style, src.cs),
     !.ref = IF /\ dst.tag \in {"IMG", "A"} /\ dst.tag = src.tag
                /\ src.refAbs # ""
             THEN src.refAbs ELSE @]

\* the number of element children of the node at path p
NumChildren(dom, p) ==
  Cardinality({q \in DOMAIN dom : Len(q) = Len(p) + 1
                                  /\ SubSeq(q, 1, Len(p)) = p})

\* rootEl.cloneNode(true): the same tree, tags and attributes, no computed
\* style
cloneNode(dom) ==
  [p \in DOMAIN dom |->
     [tag |-> dom[p].tag, style |-> dom[p].style, ref |-> dom[p].ref]]

\* a mutant of childPairs: the clone's children are paired in reverse
childPairsReversed(live, clone, pair) ==
  LET n == NumChildren(live, pair.orig)
  IN  [k \in 1..n |-> [orig |-> Append(pair.orig, k),
                       copy |-> Append(pair.copy, n + 1 - k)]]

\* for (i = 0; i < orig.children.length; i++)
\*   stack.push({ orig: orig.children[i], copy: copy.children[i] })
childPairs(live, clone, pair) ==
  [k \in 1..NumChildren(live, pair.orig) |->
     [orig |-> Append(pair.orig, k), copy |-> Append(pair.copy, k)]]

\* one iteration of while (stack.length): pop, inlineComputed, push the
\* child pairs; st.inlined lists the pairs taken from the stack so far
loopBody(live, st) ==
  LET top == st.stack[Len(st.stack)]
      rest == SubSeq(st.stack, 1, Len(st.stack) - 1)
  IN  [stack |-> rest \o childPairs(live, st.clone, top),
       clone |-> [st.clone EXCEPT
                    ![top.copy] = inlineComputed(live[top.orig], @)],
       inlined |-> Append(st.inlined, top)]

\* const clone = rootEl.cloneNode(true); stack = [{orig: rootEl, copy: clone}]
loopStart(live) ==
  [stack |-> <<[orig |-> <<>>, copy |-> <<>>]>>,
   clone |-> cloneNode(live),
   inlined |-> <<>>]

\* wrapper.innerHTML: the reset rule followed by the clone
innerHTML(clone) ==
  [reset |-> "*{box-sizing:border-box!important;}", clone |-> clone]

RECURSIVE runLoop(_, _)
runLoop(live, st) ==
  IF st.stack = <<>> THEN st ELSE runLoop(live, loopBody(live, st))

serializeWithStyles(live) == innerHTML(runLoop(live, loopStart(live)).clone)

----------------------------------------------------------------------------
(* Inputs of the serializer: subtrees of at most MaxNodes elements *)

\* the children of a node, as the sequence of their own child sequences,
\* over m elements in all
RECURSIVE Forests(_)
Forests(m) ==
  IF m = 0 THEN {<<>>}
  ELSE UNION {{<<t>> \o f : t \in Forests(k - 1), f \in Forests(m - k)} :
              k \in 1..m}

RECURSIVE PathsOf(_)
PathsOf(children) ==
  {<<>>} \cup UNION {{<<k>> \o q : q \in PathsOf(children[k])} :
                     k \in DOMAIN children}

TreePaths == {PathsOf(f) : f \in UNION {Forests(m) : m \in 0..(MaxNodes - 1)}}

Str_red == <<"r", "e", "d">>
Str_0 == <<"0">>
Str_1px == <<"1", "p", "x">>
Str_backgroundColor ==
  <<"b", "a", "c", "k", "g", "r", "o", "u", "n", "d", "C", "o", "l", "o", "r">>
Str_border == <<"b", "o", "r", "d", "e", "r">>
Str_display == <<"d", "i", "s", "p", "l", "a", "y">>
Str_block == <<"b", "l", "o", "c", "k">>
Str_colorRed == <<"c", "o", "l", "o", "r", ":", "r", "e", "d">>
Str_margin0 == <<"m", "a", "r", "g", "i", "n", ":", "0", ";">>

PropNames == {styleProps[k] : k \in DOMAIN styleProps}

\* computed styles with at most two non-empty allowlisted properties
FewPropStyles ==
  UNION {[ps -> {Str_red, Str_0}] :
         ps \in {{a, b} : a \in PropNames, b \in PropNames} \cup {{}}}

BoxStyle ==
  (Str_display :> Str_block) @@ (Str_border :> Str_1px)
  @@ (Str_backgroundColor :> Str_red)

LiveElement(tag, style, ref, refAbs, cs) ==
  [tag |-> tag, style |-> style, ref |-> ref, refAbs |-> refAbs, cs |-> cs]

\* the elements a tree of several nodes is built from
TreeElements ==
  {LiveElement("DIV", None, "", "", BoxStyle),
   LiveElement("DIV", Some(Str_colorRed), "", "", <<>>),
   LiveElement("IMG", Some(Str_margin0), "a.png", "https://h/a.png",
               (Str_display :> Str_block))}

\* single elements over every computed style of FewPropStyles
LoneElements ==
  {LiveElement("DIV", st, "", "", cs) :
     st \in {None, Some(Str_colorRed)}, cs \in FewPropStyles}

SerInputs ==
  UNION {[paths -> TreeElements] : paths \in TreePaths}
  \cup {(<<>> :> e) : e \in LoneElements}

----------------------------------------------------------------------------
(* serializeWithStyles step by step *)

\* onClick calls serializeWithStyles(el): clone and seed the stack
serStart ==
  /\ serPc = "picked"
  /\ serSt' = Some(loopStart(serLive))
  /\ serPc' = "loop"
  /\ UNCHANGED <<serLive, serOut, overlayVars, rasterVars>>

\* one iteration of the while loop
serLoop ==
  /\ serPc = "loop"
  /\ serSt[1].stack # <<>>
  /\ serSt' = Some(loopBody(serLive, serSt[1]))
  /\ UNCHANGED <<serPc, serLive, serOut, overlayVars, rasterVars>>

\* the loop ends: wrapper.innerHTML is returned
serReturn ==
  /\ serPc = "loop"
  /\ serSt[1].stack = <<>>
  /\ serOut' = Some(innerHTML(serSt[1].clone))
  /\ serPc' = "done"
  /\ UNCHANGED <<serLive, serSt, overlayVars, rasterVars>>

SerInit ==
  /\ OverlayInit
  /\ RasterIdle
  /\ serPc = "picked"
  /\ serLive \in SerInputs
  /\ serSt = None
  /\ serOut = None

SerNext == serStart \/ serLoop \/ serReturn

SerSpec == SerInit /\ [][SerNext]_vars

----------------------------------------------------------------------------
(* Full-page rasterizer: the injected captureFullPage, background.ts       *)
(* 88-204.  A document is [nodes, extents]: nodes maps child-index paths   *)
(* under document.body (<<>>) to node records, element or text; extents    *)
(* holds the five widths and five heights Math.max is taken over.  The     *)
(* canvas is the sequence of paint calls made on its context.              *)

\* nodes of a rasterized document, the body included
MaxDocNodes == 4

Max(a, b) == IF a > b THEN a ELSE b

RECURSIVE MaxOf(_)
MaxOf(seq) == IF Len(seq) = 1 THEN seq[1] ELSE Max(seq[1], MaxOf(Tail(seq)))

\* a mutant of pageHeight: the height of the viewport
pageHeightOfViewport(doc) == doc.extents.heights[3]

\* Math.max(body.scrollWidth, body.offsetWidth, documentElement.clientWidth,
\*          documentElement.scrollWidth, documentElement.offsetWidth), and
\* the same for the heights
pageWidth(doc) == MaxOf(doc.extents.widths)
pageHeight(doc) == MaxOf(doc.extents.heights)

PaintOp(op, node, x, y, w, h, style, text) ==
  [op |-> op, node |-> node, x |-> x, y |-> y, w |-> w, h |-> h,
   style |-> style, text |-> text]

IsSpace(c) == c \in {" ", "\n", "\t"}

\* textContent.trim()
RECURSIVE trimStart(_)
trimStart(t) ==
  IF t # <<>> /\ IsSpace(Head(t)) THEN trimStart(Tail(t)) ELSE t
RECURSIVE trimEnd(_)
trimEnd(t) ==
  IF t # <<>> /\ IsSpace(t[Len(t)]) THEN trimEnd(SubSeq(t, 1, Len(t) - 1)) ELSE t
trim(t) == trimEnd(trimStart(t))

\* textContent.split(' '): the pieces between single spaces, empty ones kept
RECURSIVE split(_)
split(t) ==
  IF \E k \in DOMAIN t : t[k] = " "
  THEN LET k == CHOOSE j \in DOMAIN t : t[j] = " " /\ \A i \in 1..(j - 1) : t[i] # " "
       IN  <<SubSeq(t, 1, k - 1)>> \o split(SubSeq(t, k + 1, Len(t)))
  ELSE <<t>>

\* ctx.measureText(s).width in the parent's font: the canvas is taken to
\* give every character half the font size
measureText(t, fontSize) == (Len(t) * fontSize) \div 2

\* a || b || 16 over numbers: 0 and NaN (<<>>) are falsy
OrElse(a, b) == IF a # None /\ a[1] # 0 THEN a ELSE b

\* parseInt(style.lineHeight) || parseInt(style.fontSize) || 16
lineAdvance(style) ==
  OrElse(OrElse(style.lineHeight, Some(style.fontSize)), Some(16))[1]

\* offsetY + rect.top + parseInt(style.fontSize) || 16
textAnchorY(offsetY, parent) ==
  OrElse(Some(offsetY + parent.rect.top + parent.style.fontSize), Some(16))[1]

\* style.color || '#000000', style.borderColor || '#000000'
colorOrBlack(c) == IF c = "" THEN "#000000" ELSE c

\* a mutant of wrapLines: the line left after the loop is not painted
RECURSIVE wrapLinesNoFinalFlush(_, _, _, _, _, _, _)
wrapLinesNoFinalFlush(node, words, n, line, x, y, parent) ==
  IF n > Len(words)
  THEN <<>>
  ELSE LET testLine == line \o words[n] \o <<" ">>
           testWidth == measureText(testLine, parent.style.fontSize)
       IN  IF testWidth > parent.rect.width /\ n > 1
           THEN <<PaintOp("fillText", node, x, y, 0, 0, colorOrBlack(parent.style.color), line)>>
                \o wrapLinesNoFinalFlush(node, words, n + 1, words[n] \o <<" ">>, x,
                                         y + lineAdvance(parent.style), parent)
           ELSE wrapLinesNoFinalFlush(node, words, n + 1, testLine, x, y, parent)

\* the for loop over words and the final fillText: the fillText calls made
\* from word n on, with the line so far and the vertical cursor
RECURSIVE wrapLines(_, _, _, _, _, _, _)
wrapLines(node, words, n, line, x, y, parent) ==
  IF n > Len(words)
  THEN <<PaintOp("fillText", node, x, y, 0, 0, colorOrBlack(parent.style.color), line)>>
  ELSE LET testLine == line \o words[n] \o <<" ">>
           testWidth == measureText(testLine, parent.style.fontSize)
       IN  IF testWidth > parent.rect.width /\ n > 1
           THEN <<PaintOp("fillText", node, x, y, 0, 0, colorOrBlack(parent.style.color), line)>>
                \o wrapLines(node, words, n + 1, words[n] \o <<" ">>, x,
                             y + lineAdvance(parent.style), parent)
           ELSE wrapLines(node, words, n + 1, testLine, x, y, parent)

\* the TEXT_NODE branch of captureElement (a text node always has a parent
\* element here: the walk starts at document.body)
captureText(doc, path, offsetX, offsetY) ==
  LET textContent == trim(doc.nodes[path].text)
      parent == doc.nodes[SubSeq(path, 1, Len(path) - 1)]
  IN  IF textContent = <<>> THEN <<>>
      ELSE wrapLines(path, split(textContent), 1, <<>>,
                     offsetX + parent.rect.left,
                     textAnchorY(offsetY, parent), parent)

\* style.display === 'none' || style.visibility === 'hidden'
\*   || parseFloat(style.opacity) === 0   (opacity in thousandths)
isHidden(style) ==
  style.display = "none" \/ style.visibility = "hidden" \/ style.opacity = 0

\* a mutant of paintBox: the border is stroked before the background is filled
paintBoxBorderFirst(path, el, offsetX, offsetY) ==
  (IF el.style.borderWidth # 0
   THEN <<PaintOp("strokeRect", path, offsetX + el.rect.left, offsetY + el.rect.top,
                  el.rect.width, el.rect.height, colorOrBlack(el.style.borderColor), <<>>)>>
   ELSE <<>>)
  \o
  (IF el.style.backgroundColor \notin {"", "rgba(0, 0, 0, 0)", "transparent"}
   THEN <<PaintOp("fillRect", path, offsetX + el.rect.left, offsetY + el.rect.top,
                  el.rect.width, el.rect.height, el.style.backgroundColor, <<>>)>>
   ELSE <<>>)

\* the background and border calls of one element
paintBox(path, el, offsetX, offsetY) ==
  (IF el.style.backgroundColor \notin {"", "rgba(0, 0, 0, 0)", "transparent"}
   THEN <<PaintOp("fillRect", path, offsetX + el.rect.left, offsetY + el.rect.top,
                  el.rect.width, el.rect.height, el.style.backgroundColor, <<>>)>>
   ELSE <<>>)
  \o
  (IF el.style.borderWidth # 0
   THEN <<PaintOp("strokeRect", path, offsetX + el.rect.left, offsetY + el.rect.top,
                  el.rect.width, el.rect.height, colorOrBlack(el.style.borderColor), <<>>)>>
   ELSE <<>>)

NumChildNodes(doc, path) ==
  Cardinality({q \in DOMAIN doc.nodes : Len(q) = Len(path) + 1
                                        /\ SubSeq(q, 1, Len(path)) = path})

\* The outcome of running statements: the paint calls made, and whether an
\* exception left them (captureElement has no try/catch)
Completed(ops) == [ops |-> ops, threw |-> FALSE]
Thrown(ops) == [ops |-> ops, threw |-> TRUE]

\* a; b: b runs only when a did not throw
AndThen(a, b) ==
  IF a.threw THEN a ELSE [ops |-> a.ops \o b.ops, threw |-> b.threw]

\* a mutant of captureElement: a hidden element is not painted itself, but
\* its child nodes still are
RECURSIVE captureElementSkipSelf(_, _, _, _)
captureElementSkipSelf(doc, path, offsetX, offsetY) ==
  LET node == doc.nodes[path]
      n == NumChildNodes(doc, path)
      kids[k \in 0..n] ==
        IF k = 0 THEN Completed(<<>>)
        ELSE AndThen(kids[k - 1],
                     captureElementSkipSelf(doc, Append(path, k), offsetX, offsetY))
  IN  IF node.type = "text" THEN Completed(captureText(doc, path, offsetX, offsetY))
      ELSE IF node.type # "element" THEN Completed(<<>>)
      ELSE IF node.throws THEN Thrown(<<>>)
      ELSE AndThen(Completed(IF isHidden(node.style) THEN <<>>
                             ELSE paintBox(path, node, offsetX, offsetY)),
                   kids[n])

\* captureElement(element, offsetX, offsetY): the paint calls it makes, its
\* recursion into the child nodes included.  An exception (here: of
\* getBoundingClientRect / getComputedStyle of an element, lines 166-167) is
\* caught nowhere: it ends the call and every call above it.
RECURSIVE captureElement(_, _, _, _)
captureElement(doc, path, offsetX, offsetY) ==
  LET node == doc.nodes[path]
      n == NumChildNodes(doc, path)
      kids[k \in 0..n] ==
        IF k = 0 THEN Completed(<<>>)
        ELSE AndThen(kids[k - 1],
                     captureElement(doc, Append(path, k), offsetX, offsetY))
  IN  IF node.type = "text" THEN Completed(captureText(doc, path, offsetX, offsetY))
      ELSE IF node.type # "element" THEN Completed(<<>>)
      ELSE IF node.throws THEN Thrown(<<>>)
      ELSE IF isHidden(node.style) THEN Completed(<<>>)
      ELSE AndThen(Completed(paintBox(path, node, offsetX, offsetY)), kids[n])

\* the node recorded for a call that paints no node: the base fill
Canvas == <<0>>

\* the promise's value: the canvas after the white fill and the walk from
\* document.body, and the page dimensions; <<>> when the executor threw
\* before resolve (the promise is rejected)
captureFullPage(doc) ==
  LET w == pageWidth(doc)
      h == pageHeight(doc)
      walk == captureElement(doc, <<>>, 0, 0)
  IN  IF walk.threw THEN None
      ELSE Some([ops |-> <<PaintOp("fillRect", Canvas, 0, 0, w, h, "#ffffff", <<>>)>>
                         \o walk.ops,
                 dataUrl |-> Bitmap("page", w, h),
                 pageDimensions |-> [width |-> w, height |-> h]])

----------------------------------------------------------------------------
(* Keyboard handlers: content.tsx 116-143, 494-542 *)

SetTask(i, t) == tasks' = [tasks EXCEPT ![i] = t]

\* the state resetAll sets
resetAllSets ==
  /\ mode' = "none"
  /\ rect' = None
  /\ preview' = None
  /\ domPreview' = None
  /\ hoverEl' = None
  /\ pickedEl' = None
  /\ isCapturing' = FALSE
  /\ UNCHANGED <<nonOverlayVars, drag, innerWidth, alerts>>

\* Escape, or the preview panel's Close button
resetAll ==
  /\ resetAllSets
  /\ UNCHANGED tasks

\* resetAll with the history of the runs under way kept: each is marked
\* cancelled (the program keeps no such mark)
resetAllObserved ==
  /\ resetAllSets
  /\ tasks' = [i \in DOMAIN tasks |->
                IF tasks[i].pc \in Ended THEN tasks[i]
                ELSE [tasks[i] EXCEPT !.cancelled = TRUE]]

\* Ctrl+S
activateImageMode ==
  /\ mode' = "image"
  /\ rect' = None
  /\ preview' = None
  /\ domPreview' = None
  /\ UNCHANGED <<nonOverlayVars, drag, isCapturing, hoverEl, pickedEl, innerWidth, tasks, alerts>>

\* Ctrl+D
activateDomMode ==
  /\ mode' = "dom"
  /\ rect' = None
  /\ preview' = None
  /\ domPreview' = None
  /\ UNCHANGED <<nonOverlayVars, drag, isCapturing, hoverEl, pickedEl, innerWidth, tasks, alerts>>

\* Ctrl+F; the [mode] effect runs captureFullPage when mode becomes
\* "fullpage": setIsCapturing(true) and the CAPTURE_FULL_PAGE message
activateFullPageMode ==
  /\ mode' = "fullpage"
  /\ rect' = None
  /\ preview' = None
  /\ domPreview' = None
  /\ IF mode # "fullpage"
     THEN /\ Len(tasks) < MaxCaptures
          /\ isCapturing' = TRUE
          /\ tasks' = Append(tasks, NewTask("fullpage", None))
     ELSE UNCHANGED <<isCapturing, tasks>>
  /\ UNCHANGED <<nonOverlayVars, drag, hoverEl, pickedEl, innerWidth, alerts>>

----------------------------------------------------------------------------
(* IMAGE mode mouse handlers: content.tsx 146-243 *)

Min(a, b) == IF a < b THEN a ELSE b
Abs(a) == IF a < 0 THEN -a ELSE a

onDown(clientX, clientY) ==
  /\ mode = "image"
  /\ drag' = Some([startX |-> clientX, startY |-> clientY])
  /\ rect' = Some([x |-> clientX, y |-> clientY, w |-> 0, h |-> 0])
  /\ UNCHANGED <<nonOverlayVars, mode, preview, domPreview, isCapturing, hoverEl, pickedEl,
                 innerWidth, tasks, alerts>>

onMove(clientX, clientY) ==
  /\ mode = "image"
  /\ drag # None
  /\ rect' = Some([x |-> Min(drag[1].startX, clientX),
                   y |-> Min(drag[1].startY, clientY),
                   w |-> Abs(clientX - drag[1].startX),
                   h |-> Abs(clientY - drag[1].startY)])
  /\ UNCHANGED <<nonOverlayVars, mode, drag, preview, domPreview, isCapturing, hoverEl,
                 pickedEl, innerWidth, tasks, alerts>>

\* mouseup with a drag and a rect: the capture attempt starts and suspends
\* on the 100 ms timeout; rect is the one the handler closed over (cap bounds
\* the attempts of a behaviour)
onUp(cap) ==
  /\ Len(tasks) < cap
  /\ mode = "image"
  /\ drag # None /\ rect # None
  /\ drag' = None
  /\ isCapturing' = TRUE
  /\ tasks' = Append(tasks, NewTask("region", rect))
  /\ UNCHANGED <<nonOverlayVars, mode, rect, preview, domPreview, hoverEl, pickedEl,
                 innerWidth, alerts>>

\* the timeout elapses: chrome.runtime.sendMessage({type: "CAPTURE"})
sendCapture(i) ==
  /\ tasks[i].pc = "delay"
  /\ SetTask(i, [tasks[i] EXCEPT !.pc = "sent"])
  /\ UNCHANGED <<nonOverlayVars, mode, rect, drag, preview, domPreview, isCapturing, hoverEl,
                 pickedEl, innerWidth, alerts>>

\* sendMessage rejects (no receiving end): the catch block of onUp /
\* captureFullPage
sendRejected(i, msg) ==
  /\ tasks[i].pc = "sent"
  /\ alerts' = Append(alerts, Alert("Error: ", msg))
  /\ isCapturing' = FALSE
  /\ SetTask(i, EndTask(tasks[i], "threw"))
  /\ UNCHANGED <<nonOverlayVars, mode, rect, drag, preview, domPreview, hoverEl, pickedEl,
                 innerWidth>>

----------------------------------------------------------------------------
(* DOM mode hover and pick: content.tsx 246-268 *)

\* the elements of the page under the pointer
PageElements == {"card"}

\* the live subtree of a page element
PageSubtree(el) ==
  (<<>> :> LiveElement("DIV", Some(Str_colorRed), "", "", BoxStyle))
  @@ (<<1>> :> LiveElement("IMG", None, "a.png", "https://h/a.png", <<>>))

\* serializeWithStyles of each page element
PageHtml == [el \in PageElements |-> serializeWithStyles(PageSubtree(el))]

\* mousemove: setHoverEl(document.elementFromPoint(...)), null off the page
domOnMove(el) ==
  /\ mode = "dom"
  /\ hoverEl' = el
  /\ UNCHANGED <<nonOverlayVars, mode, rect, drag, preview, domPreview,
                 isCapturing, pickedEl, innerWidth, tasks, alerts>>

\* click: el = hoverEl || e.target is serialized into domPreview
domOnClick(target) ==
  /\ mode = "dom"
  /\ LET el == IF hoverEl # None THEN hoverEl[1] ELSE target
     IN  /\ pickedEl' = Some(el)
         /\ domPreview' = Some(PageHtml[el])
  /\ mode' = "none"
  /\ UNCHANGED <<nonOverlayVars, rect, drag, preview, isCapturing, hoverEl,
                 innerWidth, tasks, alerts>>

----------------------------------------------------------------------------
(* Background: chrome.runtime.onMessage listener, background.ts 5-85 *)

\* the listener takes the message and starts handleCapture /
\* handleFullPageCapture, which suspends on its first await
onMessage(i) ==
  /\ tasks[i].pc = "sent"
  /\ SetTask(i, [tasks[i] EXCEPT
                   !.pc = IF tasks[i].kind = "region" THEN "bg_capture"
                          ELSE IF tasks[i].kind = "fullpage" THEN "bg_script"
                          ELSE "ignored"])
  /\ UNCHANGED <<nonOverlayVars, mode, rect, drag, preview, domPreview, isCapturing, hoverEl,
                 pickedEl, innerWidth, alerts>>

\* a mutant of sendErrResponse: the catch block only logs the error
sendErrResponseLogOnly(t, msg) ==
  [t EXCEPT !.pc = "responded", !.dataUrl = None]

\* catch (error) { sendResponse({ ok: false, error: error.message }) }
sendErrResponse(t, msg) ==
  [t EXCEPT !.pc = "responded", !.nresp = @ + 1, !.dataUrl = None,
            !.res = Some(ErrResponse(msg))]

\* captureVisibleTab's callback: lastError rejects, else the data URL
captureVisibleTabDone(i, ok, dataUrl, msg) ==
  /\ tasks[i].pc = "bg_capture"
  /\ SetTask(i, IF ok
                THEN [tasks[i] EXCEPT !.pc = "bg_tabget",
                                      !.dataUrl = Some(dataUrl)]
                ELSE sendErrResponse([tasks[i] EXCEPT !.fault = Some(msg)], msg))
  /\ UNCHANGED <<nonOverlayVars, mode, rect, drag, preview, domPreview, isCapturing, hoverEl,
                 pickedEl, innerWidth, alerts>>

\* chrome.tabs.get's callback, then sendResponse({ ok: true, dataUrl })
tabsGetDone(i, ok, msg) ==
  /\ tasks[i].pc = "bg_tabget"
  /\ SetTask(i, IF ok
                THEN [tasks[i] EXCEPT
                        !.pc = "responded", !.nresp = @ + 1,
                        !.dataUrl = None,
                        !.res = Some(OkResponse(tasks[i].dataUrl[1], None))]
                ELSE sendErrResponse([tasks[i] EXCEPT !.fault = Some(msg)], msg))
  /\ UNCHANGED <<nonOverlayVars, mode, rect, drag, preview, domPreview, isCapturing, hoverEl,
                 pickedEl, innerWidth, alerts>>

\* executeScript settles: out is <<result>> (results[0].result), <<>> when
\* there is no result; ok = FALSE is a rejection with msg
executeScriptDone(i, ok, out, msg) ==
  /\ tasks[i].pc = "bg_script"
  /\ SetTask(i, IF ok /\ out # None
                THEN [tasks[i] EXCEPT
                        !.pc = "responded", !.nresp = @ + 1,
                        !.res = Some(OkResponse(out[1].dataUrl,
                                                Some(out[1].pageDimensions)))]
                ELSE IF ok
                THEN sendErrResponse([tasks[i] EXCEPT
                                        !.fault = Some("Failed to capture full page")],
                                     "Failed to capture full page")
                ELSE sendErrResponse([tasks[i] EXCEPT !.fault = Some(msg)], msg))
  /\ UNCHANGED <<nonOverlayVars, mode, rect, drag, preview, domPreview, isCapturing, hoverEl,
                 pickedEl, innerWidth, alerts>>

----------------------------------------------------------------------------
(* Content script: the reply arrives. onUp 183-233, captureFullPage 279-303 *)

\* a mutant of captureFailed: the failed attempt sends the request again
captureFailedRetry(i, prefix) ==
  /\ alerts' = Append(alerts, Alert(prefix, tasks[i].res[1].error))
  /\ SetTask(i, [tasks[i] EXCEPT !.pc = "sent", !.res = None])
  /\ UNCHANGED <<mode, rect, drag, preview, domPreview, isCapturing, hoverEl,
                 pickedEl, innerWidth>>

\* if (!res?.ok) { alert(prefix + (res?.error ?? "unknown")); return }
captureFailed(i, prefix) ==
  /\ alerts' = Append(alerts, Alert(prefix, tasks[i].res[1].error))
  /\ SetTask(i, EndTask(tasks[i], "failed"))
  /\ UNCHANGED <<mode, rect, drag, preview, domPreview, isCapturing, hoverEl,
                 pickedEl, innerWidth>>

\* the CAPTURE reply: failure is alerted, success starts the image decode
\* (img.src = dataUrl)
receiveCapture(i) ==
  /\ tasks[i].kind = "region"
  /\ tasks[i].pc = "responded"
  /\ IF ~tasks[i].res[1].ok
     THEN captureFailed(i, "Capture failed: ")
     ELSE /\ SetTask(i, [tasks[i] EXCEPT !.pc = "decoding"])
          /\ UNCHANGED <<mode, rect, drag, preview, domPreview, isCapturing,
                         hoverEl, pickedEl, innerWidth, alerts>>
  /\ UNCHANGED nonOverlayVars

\* img.onload: scale, crop, setPreview, setMode(null), setIsCapturing(false)
imgOnload(i) ==
  /\ tasks[i].pc = "decoding"
  /\ preview' = Some(cropOnLoad(tasks[i].rect[1], tasks[i].res[1].dataUrl[1],
                                innerWidth))
  /\ mode' = "none"
  /\ isCapturing' = FALSE
  /\ SetTask(i, EndTask(tasks[i], "done"))
  /\ UNCHANGED <<nonOverlayVars, rect, drag, domPreview, hoverEl, pickedEl, innerWidth, alerts>>

\* a mutant of imgOnerror: the undecoded data URL is shown as the preview
imgOnerrorPartial(i) ==
  /\ tasks[i].pc = "decoding"
  /\ isCapturing' = FALSE
  /\ preview' = tasks[i].res[1].dataUrl
  /\ SetTask(i, EndTask(tasks[i], "error"))
  /\ UNCHANGED <<nonOverlayVars, mode, rect, drag, domPreview, hoverEl,
                 pickedEl, innerWidth, alerts>>

\* img.onerror: setIsCapturing(false)
imgOnerror(i) ==
  /\ tasks[i].pc = "decoding"
  /\ isCapturing' = FALSE
  /\ SetTask(i, EndTask(tasks[i], "error"))
  /\ UNCHANGED <<nonOverlayVars, mode, rect, drag, preview, domPreview, hoverEl, pickedEl,
                 innerWidth, alerts>>

\* the CAPTURE_FULL_PAGE reply
receiveFullPage(i) ==
  /\ tasks[i].kind = "fullpage"
  /\ tasks[i].pc = "responded"
  /\ IF ~tasks[i].res[1].ok
     THEN captureFailed(i, "Full page capture failed: ")
     ELSE /\ preview' = tasks[i].res[1].dataUrl
          /\ mode' = "none"
          /\ isCapturing' = FALSE
          /\ SetTask(i, EndTask(tasks[i], "done"))
          /\ UNCHANGED <<rect, drag, domPreview, hoverEl, pickedEl,
                         innerWidth, alerts>>
  /\ UNCHANGED nonOverlayVars

\* the viewport is resized between events
resize(w) ==
  /\ w # innerWidth
  /\ innerWidth' = w
  /\ UNCHANGED <<nonOverlayVars, mode, rect, drag, preview, domPreview, isCapturing, hoverEl,
                 pickedEl, tasks, alerts>>

----------------------------------------------------------------------------
(* The overlay with its captures in flight *)

Next ==
  \/ resetAll
  \/ activateImageMode
  \/ activateDomMode
  \/ activateFullPageMode
  \/ \E p \in DownPoints : onDown(p[1], p[2])
  \/ \E p \in Points : onMove(p[1], p[2])
  \/ onUp(MaxCaptures)
  \/ \E el \in {None} \cup {Some(e) : e \in PageElements} : domOnMove(el)
  \/ \E el \in PageElements : domOnClick(el)
  \/ \E i \in DOMAIN tasks : sendCapture(i)
  \/ \E i \in DOMAIN tasks, m \in ErrMsgs : sendRejected(i, m)
  \/ \E i \in DOMAIN tasks : onMessage(i)
  \/ \E i \in DOMAIN tasks, b \in ViewportBitmaps :
       captureVisibleTabDone(i, TRUE, b, "")
  \/ \E i \in DOMAIN tasks, m \in ErrMsgs :
       captureVisibleTabDone(i, FALSE, Bitmap("", 0, 0), m)
  \/ \E i \in DOMAIN tasks : tabsGetDone(i, TRUE, "")
  \/ \E i \in DOMAIN tasks, m \in ErrMsgs : tabsGetDone(i, FALSE, m)
  \/ \E i \in DOMAIN tasks, r \in PageResults :
       executeScriptDone(i, TRUE, Some(r), "")
  \/ \E i \in DOMAIN tasks : executeScriptDone(i, TRUE, None, "")
  \/ \E i \in DOMAIN tasks, m \in ErrMsgs : executeScriptDone(i, FALSE, None, m)
  \/ \E i \in DOMAIN tasks : receiveCapture(i)
  \/ \E i \in DOMAIN tasks : imgOnload(i)
  \/ \E i \in DOMAIN tasks : imgOnerror(i)
  \/ \E i \in DOMAIN tasks : receiveFullPage(i)

Spec == Init /\ [][Next]_vars

\* the same overlay with Escape observed: which runs were cancelled
CancelNext ==
  \/ resetAllObserved
  \/ activateImageMode
  \/ activateDomMode
  \/ activateFullPageMode
  \/ \E p \in DownPoints : onDown(p[1], p[2])
  \/ \E p \in Points : onMove(p[1], p[2])
  \/ onUp(MaxCaptures)
  \/ \E el \in {None} \cup {Some(e) : e \in PageElements} : domOnMove(el)
  \/ \E el \in PageElements : domOnClick(el)
  \/ \E i \in DOMAIN tasks : sendCapture(i)
  \/ \E i \in DOMAIN tasks, m \in ErrMsgs : sendRejected(i, m)
  \/ \E i \in DOMAIN tasks : onMessage(i)
  \/ \E i \in DOMAIN tasks, b \in ViewportBitmaps :
       captureVisibleTabDone(i, TRUE, b, "")
  \/ \E i \in DOMAIN tasks, m \in ErrMsgs :
       captureVisibleTabDone(i, FALSE, Bitmap("", 0, 0), m)
  \/ \E i \in DOMAIN tasks : tabsGetDone(i, TRUE, "")
  \/ \E i \in DOMAIN tasks, m \in ErrMsgs : tabsGetDone(i, FALSE, m)
  \/ \E i \in DOMAIN tasks, r \in PageResults :
       executeScriptDone(i, TRUE, Some(r), "")
  \/ \E i \in DOMAIN tasks : executeScriptDone(i, TRUE, None, "")
  \/ \E i \in DOMAIN tasks, m \in ErrMsgs : executeScriptDone(i, FALSE, None, m)
  \/ \E i \in DOMAIN tasks : receiveCapture(i)
  \/ \E i \in DOMAIN tasks : imgOnload(i)
  \/ \E i \in DOMAIN tasks : imgOnerror(i)
  \/ \E i \in DOMAIN tasks : receiveFullPage(i)

CancelSpec == Init /\ [][CancelNext]_vars

----------------------------------------------------------------------------
(* The background listener alone: messages of any type arrive from the     *)
(* extension's contexts and each is served to its response.                *)

MessageTypes == {"CAPTURE", "CAPTURE_FULL_PAGE", "PING"}

\* which branch of the listener a message type takes
KindOf(type) ==
  IF type = "CAPTURE" THEN "region"
  ELSE IF type = "CAPTURE_FULL_PAGE" THEN "fullpage"
  ELSE "other"

\* a context calls chrome.runtime.sendMessage({ type })
messageSent(type) ==
  /\ Len(tasks) < MaxCaptures
  /\ tasks' = Append(tasks, [NewTask(KindOf(type), None) EXCEPT !.pc = "sent"])
  /\ UNCHANGED <<nonOverlayVars, mode, rect, drag, preview, domPreview,
                 isCapturing, hoverEl, pickedEl, innerWidth, alerts>>

BgNext ==
  \/ \E type \in MessageTypes : messageSent(type)
  \/ \E i \in DOMAIN tasks : onMessage(i)
  \/ \E i \in DOMAIN tasks, b \in ViewportBitmaps :
       captureVisibleTabDone(i, TRUE, b, "")
  \/ \E i \in DOMAIN tasks, m \in ErrMsgs :
       captureVisibleTabDone(i, FALSE, Bitmap("", 0, 0), m)
  \/ \E i \in DOMAIN tasks : tabsGetDone(i, TRUE, "")
  \/ \E i \in DOMAIN tasks, m \in ErrMsgs : tabsGetDone(i, FALSE, m)
  \/ \E i \in DOMAIN tasks, r \in PageResults :
       executeScriptDone(i, TRUE, Some(r), "")
  \/ \E i \in DOMAIN tasks : executeScriptDone(i, TRUE, None, "")
  \/ \E i \in DOMAIN tasks, m \in ErrMsgs : executeScriptDone(i, FALSE, None, m)

BgSpec == Init /\ [][BgNext]_vars

----------------------------------------------------------------------------
(* One region capture, over a wider set of mouse positions, bitmaps and    *)
(* viewport widths: the inputs of the crop arithmetic.                     *)

CropNext ==
  \/ activateImageMode
  \/ \E p \in CropPoints : onDown(p[1], p[2])
  \/ \E p \in CropPoints : onMove(p[1], p[2])
  \/ onUp(1)
  \/ \E i \in DOMAIN tasks : sendCapture(i)
  \/ \E i \in DOMAIN tasks, m \in ErrMsgs : sendRejected(i, m)
  \/ \E i \in DOMAIN tasks : onMessage(i)
  \/ \E i \in DOMAIN tasks, b \in CropBitmaps :
       captureVisibleTabDone(i, TRUE, b, "")
  \/ \E i \in DOMAIN tasks, m \in ErrMsgs :
       captureVisibleTabDone(i, FALSE, Bitmap("", 0, 0), m)
  \/ \E i \in DOMAIN tasks : tabsGetDone(i, TRUE, "")
  \/ \E i \in DOMAIN tasks, m \in ErrMsgs : tabsGetDone(i, FALSE, m)
  \/ \E i \in DOMAIN tasks : receiveCapture(i)
  \/ \E i \in DOMAIN tasks : imgOnload(i)
  \/ \E i \in DOMAIN tasks : imgOnerror(i)
  \/ \E w \in InnerWidths : resize(w)

CropSpec == Init /\ [][CropNext]_vars

----------------------------------------------------------------------------
(* Inputs of the rasterizer: documents of at most MaxDocNodes nodes, the   *)
(* body included; a text node has no children.                             *)

Str_HelloWorld == <<"H", "e", "l", "l", "o", " ", "w", "o", "r", "l", "d">>
Str_Blank == <<" ", "\n">>

Rect(left, top, width, height) ==
  [left |-> left, top |-> top, width |-> width, height |-> height]

ComputedStyle(display, visibility, opacity, backgroundColor, borderWidth) ==
  [display |-> display, visibility |-> visibility, opacity |-> opacity,
   backgroundColor |-> backgroundColor, borderWidth |-> borderWidth,
   borderColor |-> "rgb(0, 0, 255)", color |-> "rgb(0, 0, 0)",
   fontSize |-> 16, lineHeight |-> None]

ElementNode(box, style) ==
  [type |-> "element", rect |-> box, style |-> style, text |-> <<>>,
   throws |-> FALSE]

\* an element whose getComputedStyle throws
Faulty(node) == [node EXCEPT !.throws = TRUE]

TextNode(text) ==
  [type |-> "text", rect |-> Rect(0, 0, 0, 0),
   style |-> ComputedStyle("", "", 0, "", 0), text |-> text,
   throws |-> FALSE]

ElementNodes ==
  { ElementNode(Rect(10, 20, 200, 50),
                ComputedStyle("block", "visible", 1000, "rgb(255, 0, 0)", 1)),
    ElementNode(Rect(10, 20, 40, 50),
                ComputedStyle("block", "visible", 1000, "rgba(0, 0, 0, 0)", 0)),
    ElementNode(Rect(10, 20, 200, 50),
                ComputedStyle("none", "visible", 1000, "rgb(255, 0, 0)", 1)),
    ElementNode(Rect(10, 20, 200, 50),
                ComputedStyle("block", "hidden", 1000, "rgb(255, 0, 0)", 1)),
    ElementNode(Rect(10, 20, 200, 50),
                ComputedStyle("block", "visible", 0, "rgb(255, 0, 0)", 1)),
    Faulty(ElementNode(Rect(10, 20, 200, 50),
                       ComputedStyle("block", "visible", 1000, "rgb(255, 0, 0)", 1))) }

TextNodes == {TextNode(Str_HelloWorld), TextNode(Str_Blank)}

DocPaths == {PathsOf(f) : f \in UNION {Forests(m) : m \in 0..(MaxDocNodes - 1)}}

IsLeaf(paths, p) == \A q \in paths : ~(Len(q) = Len(p) + 1 /\ SubSeq(q, 1, Len(p)) = p)

DocNodes ==
  UNION {{n \in [paths -> ElementNodes \cup TextNodes] :
            /\ n[<<>>].type = "element"
            /\ \A p \in paths : n[p].type = "text" => IsLeaf(paths, p)} :
         paths \in DocPaths}

\* body.scrollWidth, body.offsetWidth, documentElement.clientWidth,
\* .scrollWidth, .offsetWidth, and the five heights in the same order
Extents ==
  { [widths |-> <<1000, 980, 1000, 1000, 1000>>,
     heights |-> <<3000, 2990, 800, 3000, 3000>>],
    [widths |-> <<1200, 980, 1000, 1000, 1000>>,
     heights |-> <<0, 0, 800, 0, 0>>] }

RasterDocs == {[nodes |-> n, extents |-> e] : n \in DocNodes, e \in Extents}

----------------------------------------------------------------------------
(* The script injected by handleFullPageCapture, background.ts 59-62, and  *)
(* the promise it returns.                                                 *)

\* chrome.scripting.executeScript({ func: captureFullPage }) starts the
\* function in the page
executeScript ==
  /\ rPc = "idle"
  /\ rPc' = "injected"
  /\ UNCHANGED <<rDoc, rOut, rRes, overlayVars, serVars>>

\* captureFullPage runs to its resolve(...), or to the exception that
\* rejects its promise: it awaits nothing in between
captureFullPageResolve ==
  /\ rPc = "injected"
  /\ rOut' = captureFullPage(rDoc)
  /\ rPc' = IF rOut' = None THEN "rejected" ELSE "resolved"
  /\ UNCHANGED <<rDoc, rRes, overlayVars, serVars>>

\* the message of the exception thrown in the page
ThrownMsgs == {"Failed to execute 'getComputedStyle' on 'Window'"}

\* handleFullPageCapture after the await: the result is sent with ok: true;
\* a rejected script promise either rejects executeScript (catch, line 76)
\* or leaves results[0].result empty (throw of line 73, same catch)
handleFullPageCaptureRespond(msg) ==
  /\ rPc \in {"resolved", "rejected"}
  /\ rRes' = IF rPc = "resolved"
             THEN Some(OkResponse(rOut[1].dataUrl, Some(rOut[1].pageDimensions)))
             ELSE Some(ErrResponse(msg))
  /\ rPc' = "responded"
  /\ UNCHANGED <<rDoc, rOut, overlayVars, serVars>>

RasterInit ==
  /\ OverlayInit /\ SerIdle
  /\ rPc = "idle" /\ rDoc \in RasterDocs /\ rOut = None /\ rRes = None

RasterNext ==
  \/ executeScript
  \/ captureFullPageResolve
  \/ \E msg \in ThrownMsgs \cup {"Failed to capture full page"} :
       handleFullPageCaptureRespond(msg)

RasterSpec == RasterInit /\ [][RasterNext]_vars

----------------------------------------------------------------------------
(* The rasterizer on one text node, over a wider set of texts, parent      *)
(* rectangles, font sizes and line heights: the inputs of the text branch. *)
(* The document is body > element > text.                                  *)

Str_Words4 == <<"a", " ", "b", "b", " ", "c", "c", "c", " ", "d">>
Str_Spaced == <<" ", "a", " ", " ", "b", " ">>
Str_LongWord == <<"L", "o", "o", "o", "o", "o", "o", "n", "g">>

Texts == {Str_HelloWorld, Str_Words4, Str_Spaced, Str_LongWord, Str_Blank}

\* getBoundingClientRect() is relative to the viewport: top is negative for
\* an element scrolled above it
ParentTops == {0 - 16, 0, 20}
ParentWidths == {40, 60, 200}
\* parseInt of the computed font-size, always "<n>px"
FontSizes == {0, 16}
\* parseInt of the computed line-height: NaN (<<>>) for "normal"
LineHeights == {None, Some(0), Some(20)}

PlainStyle == ComputedStyle("block", "visible", 1000, "rgba(0, 0, 0, 0)", 0)

TextParents ==
  {ElementNode(Rect(10, top, width, 50),
               [PlainStyle EXCEPT !.fontSize = fs, !.lineHeight = lh]) :
     top \in ParentTops, width \in ParentWidths,
     fs \in FontSizes, lh \in LineHeights}

TextPath == <<1, 1>>

TextDocs ==
  {[nodes |-> (<<>> :> ElementNode(Rect(0, 0, 1000, 3000), PlainStyle))
              @@ (<<1>> :> parent) @@ (TextPath :> TextNode(t)),
    extents |-> e] :
     parent \in TextParents, t \in Texts,
     e \in {x \in Extents : x.heights[1] = 3000}}

TextInit ==
  /\ OverlayInit /\ SerIdle
  /\ rPc = "idle" /\ rDoc \in TextDocs /\ rOut = None /\ rRes = None

TextSpec == TextInit /\ [][RasterNext]_vars

----------------------------------------------------------------------------
(* Properties of the region crop (CropSpec) *)

\* the step in which img.onload of capture i runs
LoadStep(i) == tasks[i].pc = "decoding" /\ tasks'[i].pc = "done"

\* the drawImage call recorded in the preview set by that step
DrawnAfterLoad == preview'[1].draw[1]

\* n is an integer nearest to a * num / den (den > 0)
IsNearest(n, a, num, den) == 2 * Abs(n * den - a * num) <= den

AtLeast1(a) == IF a > 1 THEN a ELSE 1

\* C1 (as claimed): for every logical rectangle and every scale > 0, the
\* source rectangle (sx, sy, sw, sh) handed to the pixel copy has width >= 1
\* and height >= 1.
C1_SourceRectAtLeast1 ==
  [][\A i \in DOMAIN tasks :
       (LoadStep(i) /\ innerWidth > 0 /\ tasks[i].res[1].dataUrl[1].w > 0)
       => /\ IsFinite(DrawnAfterLoad.sw) /\ DrawnAfterLoad.sw.v >= 1
          /\ IsFinite(DrawnAfterLoad.sh) /\ DrawnAfterLoad.sh.v >= 1]_vars

\* C2: for every decoded bitmap, rectangle R and scale s > 0 the canvas is
\* max(1, round(R.w * s)) by max(1, round(R.h * s)), and the copy goes to the
\* canvas origin, unscaled, from the source rectangle
\* (round(R.x*s), round(R.y*s), round(R.w*s), round(R.h*s)) of that bitmap.
C2_CanvasAndCopy ==
  [][\A i \in DOMAIN tasks :
       (LoadStep(i) /\ innerWidth > 0)
       => LET R == tasks[i].rect[1]
              img == tasks[i].res[1].dataUrl[1]
              d == DrawnAfterLoad
          IN  /\ preview'[1].kind = "crop"
              /\ \A a \in {d.sx, d.sy, d.sw, d.sh} : IsFinite(a)
              /\ IsNearest(d.sx.v, R.x, img.w, innerWidth)
              /\ IsNearest(d.sy.v, R.y, img.w, innerWidth)
              /\ IsNearest(d.sw.v, R.w, img.w, innerWidth)
              /\ IsNearest(d.sh.v, R.h, img.w, innerWidth)
              /\ preview'[1].w = AtLeast1(d.sw.v)
              /\ preview'[1].h = AtLeast1(d.sh.v)
              /\ d.img = [w |-> img.w, h |-> img.h]
              /\ d.dx = 0 /\ d.dy = 0
              /\ d.dw = d.sw /\ d.dh = d.sh]_vars

\* a crop whose rounded width is 0, held in a 1-pixel-wide canvas
C2_Witness ==
  /\ preview # None
  /\ preview[1].kind = "crop"
  /\ preview[1].draw[1].sw = Fin(0)
  /\ preview[1].draw[1].sx = Fin(33)
  /\ preview[1].w = 1

\* C3: the scale is bitmap width over window.innerWidth (the height is not
\* used) and x, y, w, h are each multiplied by it and rounded to the nearest
\* integer; with a 1000-wide viewport and a 2000x4000 bitmap, {100, 200, 50,
\* 60} is cropped from {200, 400, 100, 120}.
C3_ScaleByWidth ==
  [][\A i \in DOMAIN tasks :
       (LoadStep(i) /\ innerWidth > 0)
       => LET R == tasks[i].rect[1]
              img == tasks[i].res[1].dataUrl[1]
              d == DrawnAfterLoad
              src == <<d.sx, d.sy, d.sw, d.sh>>
              log == <<R.x, R.y, R.w, R.h>>
          IN  /\ \A k \in 1..4 :
                   /\ IsFinite(src[k])
                   /\ 2 * src[k].v * innerWidth <= 2 * log[k] * img.w + innerWidth
                   /\ 2 * src[k].v * innerWidth > 2 * log[k] * img.w - innerWidth
              /\ (/\ innerWidth = 1000 /\ img.w = 2000 /\ img.h = 4000
                  /\ R = [x |-> 100, y |-> 200, w |-> 50, h |-> 60])
                 => src = <<Fin(200), Fin(400), Fin(100), Fin(120)>>]_vars

\* the crop of the 2000x4000 bitmap at {200, 400, 100, 120}
C3_Witness ==
  /\ preview # None
  /\ preview[1].kind = "crop"
  /\ preview[1].draw[1].img = [w |-> 2000, h |-> 4000]
  /\ preview[1].draw[1].sx = Fin(200)
  /\ preview[1].draw[1].sy = Fin(400)
  /\ preview[1].draw[1].sw = Fin(100)
  /\ preview[1].draw[1].sh = Fin(120)

\* C4 (as claimed): when window.innerWidth is 0 as the image loads, the scale
\* resolution fails with a reported error: no crop, no preview.
C4_ZeroWidthFails ==
  [][\A i \in DOMAIN tasks :
       (LoadStep(i) /\ innerWidth = 0)
       => /\ preview' = preview
          /\ Len(alerts') = Len(alerts) + 1]_vars

----------------------------------------------------------------------------
(* Properties of failed captures (Spec) *)

\* a capture attempt starts only in a mouseup that ends a drag or in a switch
\* of the mode to "fullpage"
StartedByUser ==
  Len(tasks') > Len(tasks)
  => /\ Len(tasks') = Len(tasks) + 1
     /\ \A j \in DOMAIN tasks : tasks'[j] = tasks[j]
     /\ \/ mode = "image" /\ drag # None /\ drag' = None
        \/ mode # "fullpage" /\ mode' = "fullpage"

\* C5: when the capture primitive fails (captureVisibleTab, tabs.get or the
\* injected script reports an error, or the reply has ok = false) the
\* background answers {ok: false, error: <the raw message>}; on that reply the
\* content script alerts that message, sets no preview, and sends no further
\* request: the attempt has ended and only a user event starts another.
C5_PrimitiveFailureAborts ==
  [][/\ StartedByUser
     /\ \A i \in DOMAIN tasks :
          /\ (tasks[i].fault = None /\ tasks'[i].fault # None)
             => /\ tasks'[i].pc = "responded"
                /\ tasks'[i].res = Some(ErrResponse(tasks'[i].fault[1]))
          /\ (/\ tasks[i].pc = "responded" /\ ~tasks[i].res[1].ok
              /\ tasks'[i].pc # "responded")
             => /\ tasks'[i].pc = "failed"
                /\ Len(alerts') = Len(alerts) + 1
                /\ alerts'[Len(alerts')].msg = tasks[i].res[1].error
                /\ preview' = preview
                /\ Len(tasks') = Len(tasks)
                /\ \A j \in DOMAIN tasks : j # i => tasks'[j] = tasks[j]
          /\ tasks[i].pc = "failed" => tasks'[i] = tasks[i]]_vars

\* a region capture and a full-page capture have both failed and been
\* alerted, and no preview is set
C5_Witness ==
  /\ \E i \in DOMAIN tasks : tasks[i].pc = "failed" /\ tasks[i].kind = "region"
  /\ \E i \in DOMAIN tasks : tasks[i].pc = "failed" /\ tasks[i].kind = "fullpage"
  /\ Len(alerts) = 2
  /\ \A k \in DOMAIN alerts : alerts[k].msg \in ErrMsgs
  /\ preview = None

\* C6: when the captured bitmap fails to decode (img.onerror), the region
\* capture ends in error: preview is left as it was (no partial artifact),
\* the attempt never resumes, and no CAPTURE request is issued until the user
\* makes another selection.
C6_DecodeFailureIsTerminal ==
  [][/\ StartedByUser
     /\ \A i \in DOMAIN tasks :
          /\ (tasks[i].pc = "decoding" /\ tasks'[i].pc # "decoding")
             => \/ tasks'[i].pc = "done"
                \/ /\ tasks'[i].pc = "error"
                   /\ preview' = preview
                   /\ domPreview' = domPreview
                   /\ Len(tasks') = Len(tasks)
                   /\ \A j \in DOMAIN tasks : j # i => tasks'[j] = tasks[j]
          /\ tasks[i].pc = "error" => tasks'[i] = tasks[i]]_vars

\* the only capture so far ended in a decode error and left no preview
C6_Witness ==
  /\ Len(tasks) = 1
  /\ tasks[1].pc = "error"
  /\ preview = None
  /\ mode = "image"

----------------------------------------------------------------------------
(* Properties of the serializer (SerSpec) *)

AttrText(attr) == IF attr = None THEN <<>> ELSE attr[1]

\* what inlining appended to the clone's style attribute at path p
Appended(p) ==
  LET before == AttrText(serLive[p].style)
      after == AttrText(serOut[1].clone[p].style)
  IN  SubSeq(after, Len(before) + 1, Len(after))

\* the first position of character c in s, Len(s) + 1 when there is none
FirstIndex(s, c) ==
  IF \E k \in DOMAIN s : s[k] = c
  THEN CHOOSE k \in DOMAIN s : s[k] = c /\ \A j \in 1..(k - 1) : s[j] # c
  ELSE Len(s) + 1

\* a style text read back as its declarations <<name, value>>, split at each
\* ";" and at the first ":" of each piece
RECURSIVE ParseDeclarations(_)
ParseDeclarations(s) ==
  IF s = <<>> THEN <<>>
  ELSE LET semi == FirstIndex(s, ";")
           piece == SubSeq(s, 1, semi - 1)
           colon == FirstIndex(piece, ":")
       IN  <<[name |-> SubSeq(piece, 1, colon - 1),
              value |-> SubSeq(piece, colon + 1, Len(piece)),
              closed |-> semi <= Len(s) /\ colon <= Len(piece)]>>
           \o ParseDeclarations(SubSeq(s, semi + 1, Len(s)))

IsLowerOrHyphen(c) == c = "-" \/ \E k \in 1..26 : LowerChars[k] = c

\* the camel-case name a hyphen-case name stands for
RECURSIVE HyphenToCamel(_)
HyphenToCamel(n) ==
  IF n = <<>> THEN <<>>
  ELSE IF Head(n) = "-" /\ Len(n) >= 2
            /\ \E k \in 1..26 : LowerChars[k] = n[2]
       THEN <<UpperChars[CHOOSE k \in 1..26 : LowerChars[k] = n[2]]>>
            \o HyphenToCamel(SubSeq(n, 3, Len(n)))
       ELSE <<Head(n)>> \o HyphenToCamel(Tail(n))

AllowlistIndex(camel) ==
  IF camel \in PropNames
  THEN CHOOSE k \in DOMAIN styleProps : styleProps[k] = camel
  ELSE 0

IsPrefix(a, b) == Len(a) <= Len(b) /\ SubSeq(b, 1, Len(a)) = a

Str_background_color ==
  <<"b", "a", "c", "k", "g", "r", "o", "u", "n", "d", "-", "c", "o", "l", "o", "r">>

\* C7: for every element of the serialized subtree the clone's final style
\* attribute is its original inline style text (possibly empty) followed by
\* the extracted declarations, never a replacement; an element whose computed
\* background color and border are non-empty gets a border and a
\* background-color declaration after its original inline style.
C7_InlineStyleAppended ==
  serPc = "done" =>
    \A p \in DOMAIN serLive :
      LET before == AttrText(serLive[p].style)
          final == serOut[1].clone[p].style
          decls == ParseDeclarations(Appended(p))
          cs == serLive[p].cs
      IN  /\ final # None
          /\ IsPrefix(before, final[1])
          /\ \A k \in DOMAIN decls : decls[k].closed
          /\ Len(decls) = Cardinality({q \in PropNames : computedValue(cs, q) # <<>>})
          /\ (/\ computedValue(cs, Str_backgroundColor) # <<>>
              /\ computedValue(cs, Str_border) # <<>>)
             => /\ \E k \in DOMAIN decls :
                     /\ decls[k].name = Str_border
                     /\ decls[k].value = cs[Str_border]
                /\ \E k \in DOMAIN decls :
                     /\ decls[k].name = Str_background_color
                     /\ decls[k].value = cs[Str_backgroundColor]

\* an element with an inline style, a background color and a border has been
\* serialized
C7_Witness ==
  /\ serPc = "done"
  /\ \E p \in DOMAIN serLive :
       /\ serLive[p].style = Some(Str_colorRed)
       /\ computedValue(serLive[p].cs, Str_backgroundColor) # <<>>
       /\ computedValue(serLive[p].cs, Str_border) # <<>>
       /\ Len(serOut[1].clone[p].style[1]) > Len(Str_colorRed)

\* the pairs the loop has on its stack or has taken from it
PairsSeen == serSt[1].inlined \o serSt[1].stack

\* C8: every (live, clone) pair of the work list has the clone node at the
\* same child-index path as the live node; every element of the live subtree
\* is paired and inlined exactly once; the work list empties, after exactly
\* one iteration per element.
C8_PairedWalk ==
  serSt # None =>
    /\ \A k \in DOMAIN PairsSeen :
         /\ PairsSeen[k].orig \in DOMAIN serLive
         /\ PairsSeen[k].copy \in DOMAIN serSt[1].clone
         /\ PairsSeen[k].copy = PairsSeen[k].orig
         /\ \A j \in DOMAIN PairsSeen : j # k => PairsSeen[j].orig # PairsSeen[k].orig
    /\ DOMAIN serSt[1].clone = DOMAIN serLive
    /\ Len(serSt[1].inlined) <= Cardinality(DOMAIN serLive)
    /\ \A p \in DOMAIN serLive :
         IF \E k \in DOMAIN serSt[1].inlined : serSt[1].inlined[k].orig = p
         THEN serSt[1].clone[p].style # None
         ELSE serSt[1].clone[p].style = serLive[p].style
    /\ serPc = "done"
       => /\ serSt[1].stack = <<>>
          /\ {serSt[1].inlined[k].orig : k \in DOMAIN serSt[1].inlined}
             = DOMAIN serLive
          /\ \A p \in DOMAIN serLive : serOut[1].clone[p].style # None

\* a walk over a root with two children, one of them with a child, is done
C8_Witness ==
  /\ serPc = "done"
  /\ DOMAIN serLive = {<<>>, <<1>>, <<2>>, <<2, 1>>}
  /\ Len(serSt[1].inlined) = 4

\* C9: the declarations emitted for an element are those of the allowlist, in
\* the allowlist's order, one for a property if and only if its computed
\* value is non-empty, each named in hyphen-case (backgroundColor ->
\* background-color) and carrying that value; nothing else is emitted.
C9_AllowlistOrder ==
  serPc = "done" =>
    \A p \in DOMAIN serLive :
      LET decls == ParseDeclarations(Appended(p))
          cs == serLive[p].cs
          idx == [k \in DOMAIN decls |-> AllowlistIndex(HyphenToCamel(decls[k].name))]
      IN  /\ \A k \in DOMAIN decls :
               /\ decls[k].closed
               /\ \A j \in DOMAIN decls[k].name : IsLowerOrHyphen(decls[k].name[j])
               /\ idx[k] \in DOMAIN styleProps
               /\ decls[k].value # <<>>
               /\ decls[k].value = computedValue(cs, styleProps[idx[k]])
               /\ k > 1 => idx[k - 1] < idx[k]
          /\ {idx[k] : k \in DOMAIN decls}
             = {k \in DOMAIN styleProps : computedValue(cs, styleProps[k]) # <<>>}
          /\ computedValue(cs, Str_backgroundColor) # <<>>
             => \E k \in DOMAIN decls : decls[k].name = Str_background_color

\* an element with exactly backgroundColor and one earlier property set
C9_Witness ==
  /\ serPc = "done"
  /\ DOMAIN serLive = {<<>>}
  /\ DOMAIN serLive[<<>>].cs = {Str_backgroundColor, Str_display}
  /\ Len(ParseDeclarations(Appended(<<>>))) = 2

----------------------------------------------------------------------------
(* Properties of the rasterizer (RasterSpec) *)

\* the proper prefixes of a path and the path itself: the node and the
\* elements above it
UpTo(p) == {SubSeq(p, 1, k) : k \in 0..Len(p)}

\* display none, visibility hidden or opacity 0
NotRendered(node) ==
  /\ node.type = "element"
  /\ \/ node.style.display = "none"
     \/ node.style.visibility = "hidden"
     \/ node.style.opacity = 0

\* the paint calls made after the base fill
NodePaints == Tail(rOut[1].ops)

\* C10: once the rasterizer has resolved, its first paint call is the white
\* base fill, every later call (fillRect, strokeRect, fillText) paints a node
\* of the document that is neither a non-rendered element nor below one, and
\* a document whose body is not rendered gets no call but the base fill.
C10_HiddenSubtreeNotPainted ==
  rPc = "resolved" =>
    /\ rOut[1].ops # <<>>
    /\ rOut[1].ops[1].op = "fillRect" /\ rOut[1].ops[1].node = Canvas
    /\ rOut[1].ops[1].style = "#ffffff"
    /\ \A k \in DOMAIN NodePaints :
         /\ NodePaints[k].op \in {"fillRect", "strokeRect", "fillText"}
         /\ NodePaints[k].node \in DOMAIN rDoc.nodes
         /\ \A q \in UpTo(NodePaints[k].node) : ~NotRendered(rDoc.nodes[q])
    /\ NotRendered(rDoc.nodes[<<>>]) => NodePaints = <<>>

\* a resolved run over a document with a rendered body, a non-rendered
\* element under it that has a visible child element and a text child, and
\* a rendered sibling that was painted
C10_Witness ==
  /\ rPc = "resolved"
  /\ ~NotRendered(rDoc.nodes[<<>>])
  /\ \E p \in DOMAIN rDoc.nodes :
       /\ NotRendered(rDoc.nodes[p])
       /\ \E q \in DOMAIN rDoc.nodes :
            /\ Len(q) = Len(p) + 1 /\ SubSeq(q, 1, Len(p)) = p
            /\ (rDoc.nodes[q].type = "text" \/ ~NotRendered(rDoc.nodes[q]))
  /\ NodePaints # <<>>

\* the ten extents read from the page: widths and heights of the body and
\* the document element
WidthExtents == {rDoc.extents.widths[k] : k \in 1..5}
HeightExtents == {rDoc.extents.heights[k] : k \in 1..5}

\* C11: the canvas of a resolved full-page capture and the returned
\* pageDimensions both have the greatest of the five width extents as width
\* and the greatest of the five height extents as height (so neither is below
\* any extent); scroll height 3000 with viewport height 800 gives height 3000.
C11_PageDimensionsAreMaxima ==
  rPc = "resolved" =>
    LET dims == rOut[1].pageDimensions
        canvas == rOut[1].dataUrl
        base == rOut[1].ops[1]
    IN  /\ dims.width \in WidthExtents
        /\ \A w \in WidthExtents : dims.width >= w
        /\ dims.height \in HeightExtents
        /\ \A h \in HeightExtents : dims.height >= h
        /\ canvas.w = dims.width /\ canvas.h = dims.height
        /\ base.w = dims.width /\ base.h = dims.height
        /\ (rDoc.extents.heights[1] = 3000 /\ rDoc.extents.heights[3] = 800)
           => (dims.height = 3000 /\ canvas.h = 3000)

\* a resolved capture of the page 3000 high in a viewport 800 high
C11_Witness ==
  /\ rPc = "resolved"
  /\ rDoc.extents.heights[1] = 3000 /\ rDoc.extents.heights[3] = 800
  /\ rOut[1].pageDimensions.height = 3000
  /\ rOut[1].dataUrl.h = 3000

\* C12 (as claimed): a node whose paint step throws is skipped and the walk
\* goes on, so every full-page capture is answered with ok = true, a bitmap
\* and the page dimensions.
C12_NodeFaultIsolated ==
  rPc = "responded" =>
    /\ rRes[1].ok
    /\ rRes[1].dataUrl # None
    /\ rRes[1].pageDimensions # None

\* p is a proper ancestor of q
IsAbove(p, q) == Len(p) < Len(q) /\ SubSeq(q, 1, Len(p)) = p

\* p comes before q in document (pre-order, depth-first) order
DocBefore(p, q) ==
  \/ IsAbove(p, q)
  \/ \E i \in 1..Min(Len(p), Len(q)) :
       /\ p[i] < q[i]
       /\ \A j \in 1..(i - 1) : p[j] = q[j]

\* the element at p is reached by the walk: it and all elements above it
\* are rendered
Rendered(p) == \A q \in UpTo(p) : ~NotRendered(rDoc.nodes[q])

PaintsOf(p, op) == {k \in DOMAIN NodePaints :
                      NodePaints[k].node = p /\ NodePaints[k].op = op}

Transparent(c) == c \in {"", "rgba(0, 0, 0, 0)", "transparent"}

\* C16: after the white base fill the paint calls come in document order:
\* a call for a node is never followed by a call for a node before it; of
\* one element the background fill comes before the border stroke, and both
\* before every call for a node below it; a rendered element gets exactly
\* one fill when its background colour is not transparent (else none) and
\* exactly one stroke when its border width is not zero (else none).
C16_PaintsInDocumentOrder ==
  rPc = "resolved" =>
    /\ rOut[1].ops[1].node = Canvas
    /\ \A k, l \in DOMAIN NodePaints :
         k < l =>
           LET a == NodePaints[k]
               b == NodePaints[l]
           IN  \/ DocBefore(a.node, b.node)
               \/ /\ a.node = b.node
                  /\ \/ a.op = "fillRect" /\ b.op = "strokeRect"
                     \/ a.op = "fillText" /\ b.op = "fillText"
    /\ \A p \in DOMAIN rDoc.nodes :
         (rDoc.nodes[p].type = "element" /\ Rendered(p)) =>
           /\ Cardinality(PaintsOf(p, "fillRect"))
                = IF Transparent(rDoc.nodes[p].style.backgroundColor) THEN 0 ELSE 1
           /\ Cardinality(PaintsOf(p, "strokeRect"))
                = IF rDoc.nodes[p].style.borderWidth = 0 THEN 0 ELSE 1

\* a resolved run in which the body was filled and stroked, then its first
\* child and a node below that child, then its second child
C16_Witness ==
  /\ rPc = "resolved"
  /\ PaintsOf(<<>>, "fillRect") # {} /\ PaintsOf(<<>>, "strokeRect") # {}
  /\ PaintsOf(<<1>>, "fillRect") # {}
  /\ PaintsOf(<<1, 1>>, "fillText") # {}
  /\ PaintsOf(<<2>>, "strokeRect") # {}

----------------------------------------------------------------------------
(* Properties of the text branch (TextSpec) *)

\* the fillText calls of the text node, in order
TextLines == SelectSeq(NodePaints, LAMBDA o : o.node = TextPath)

\* the words of the text: the pieces of the trimmed text between spaces
TextWords == split(trim(rDoc.nodes[TextPath].text))

TextParent == rDoc.nodes[<<1>>]

\* words i..j of ws as the code accumulates them: each followed by a space
RECURSIVE Joined(_, _, _)
Joined(ws, i, j) ==
  IF i > j THEN <<>> ELSE ws[i] \o <<" ">> \o Joined(ws, i + 1, j)

\* the elements of a set of numbers in increasing order
SortedSeq(S) ==
  CHOOSE s \in [1..Cardinality(S) -> S] :
    \A a, b \in DOMAIN s : a < b => s[a] < s[b]

\* measured width of a candidate line in the parent's font
LineWidth(line) == measureText(line, TextParent.style.fontSize)

\* The painted lines are the words in order, each once, cut into
\* consecutive non-empty runs, and for every word from word `first` on, the
\* word begins a new line exactly when the line so far with that word added
\* measures wider than the parent's rectangle.
WrapRule(first) ==
  LET ws == TextWords
      N == Len(ws)
  IN  \E cuts \in SUBSET (1..(N - 1)) :
        LET ends == SortedSeq(cuts \cup {N})
            start(k) == IF k = 1 THEN 1 ELSE ends[k - 1] + 1
            lineOf(n) == CHOOSE k \in DOMAIN ends : start(k) <= n /\ n <= ends[k]
            startsLine(n) == n > 1 /\ n = start(lineOf(n))
            soFarFrom(n) == IF startsLine(n) THEN start(lineOf(n) - 1)
                            ELSE start(lineOf(n))
        IN  /\ Len(TextLines) = Len(ends)
            /\ \A k \in DOMAIN ends :
                 /\ TextLines[k].op = "fillText"
                 /\ TextLines[k].text = Joined(ws, start(k), ends[k])
            /\ \A n \in first..N :
                 startsLine(n)
                 <=> LineWidth(Joined(ws, soFarFrom(n), n)) > TextParent.rect.width

HasText == trim(rDoc.nodes[TextPath].text) # <<>>

\* C13 (as claimed): the lines hold every word once, in order; a new line is
\* started exactly when adding the next word, the first included, would make
\* the measured line wider than the parent's rectangle; the last line is
\* always painted.
C13_WrapFromFirstWord ==
  (rPc = "resolved" /\ HasText) => WrapRule(1)

\* C13 (amended): the lines hold every word once, in order; a new line is
\* started exactly when the line already holds a word and adding the next
\* word would make the measured line wider than the parent's rectangle (the
\* first word stays on the first line however wide it is); the last line is
\* always painted; two words that do not fit together are painted as at
\* least two lines.
C13_GreedyWrap ==
  (rPc = "resolved" /\ HasText) =>
    /\ WrapRule(2)
    /\ TextLines # <<>>
    /\ (/\ Len(TextWords) = 2
        /\ LineWidth(Joined(TextWords, 1, 2)) > TextParent.rect.width)
       => Len(TextLines) >= 2

\* "Hello world" in a parent 40 wide, painted as the lines "Hello " and
\* "world "
C13_Witness ==
  /\ rPc = "resolved"
  /\ rDoc.nodes[TextPath].text = Str_HelloWorld
  /\ TextParent.rect.width = 40
  /\ Len(TextLines) = 2
  /\ TextLines[1].text = <<"H", "e", "l", "l", "o", " ">>
  /\ TextLines[2].text = <<"w", "o", "r", "l", "d", " ">>

\* C14 (as claimed): the first line of a painted text node is drawn at
\* x = parent rect left, y = parent rect top + parent font size, whatever the
\* top and the font size are, and each following line one line-height lower
\* (one font size lower when the line-height is not a number).
C14_TextAnchor ==
  (rPc = "resolved" /\ HasText) =>
    LET st == TextParent.style
        advance == IF st.lineHeight # None THEN st.lineHeight[1] ELSE st.fontSize
    IN  /\ TextLines # <<>>
        /\ TextLines[1].x = TextParent.rect.left
        /\ TextLines[1].y = TextParent.rect.top + st.fontSize
        /\ \A k \in 2..Len(TextLines) :
             /\ TextLines[k].x = TextParent.rect.left
             /\ TextLines[k].y = TextLines[k - 1].y + advance

----------------------------------------------------------------------------
(* Properties of concurrent captures (Spec) *)

\* the request of attempt i has been sent and its answer is not yet fully
\* processed by the content script
InFlight(i) ==
  tasks[i].pc \in {"sent", "bg_capture", "bg_tabget", "bg_script",
                   "responded", "decoding"}

\* C15 (as claimed): at every moment at most one capture request (CAPTURE or
\* CAPTURE_FULL_PAGE) of the page is sent and not yet answered and processed.
C15_OneCaptureInFlight ==
  \A i, j \in DOMAIN tasks : (InFlight(i) /\ InFlight(j)) => i = j

----------------------------------------------------------------------------
(* Properties of the background listener (BgSpec) *)

\* the handler of message i has run to its end
Served(i) == tasks[i].pc = "responded"

\* C17: sendResponse is called for a CAPTURE or CAPTURE_FULL_PAGE message
\* never more than once, and exactly once by the time its handler has ended,
\* whichever step failed; the response is {ok: true, dataUrl} when no step
\* failed and {ok: false, error: <the message of the failure>} otherwise; a
\* message of another type is never answered.
C17_RespondsExactlyOnce ==
  \A i \in DOMAIN tasks :
    LET t == tasks[i]
    IN  /\ t.nresp <= 1
        /\ t.kind = "other" => (t.nresp = 0 /\ t.res = None)
        /\ t.kind \in {"region", "fullpage"} =>
             /\ Served(i) <=> t.nresp = 1
             /\ t.nresp = 0 => t.res = None
             /\ Served(i) =>
                  /\ t.res # None
                  /\ t.res[1].ok <=> t.fault = None
                  /\ t.res[1].ok => t.res[1].dataUrl # None
                  /\ ~t.res[1].ok => /\ t.res[1].dataUrl = None
                                     /\ t.res[1].error = t.fault[1]

\* a CAPTURE answered with an error, and a message of another type that
\* the listener has let pass without an answer
C17_Witness ==
  /\ \E i \in DOMAIN tasks :
       tasks[i].kind = "region" /\ Served(i) /\ ~tasks[i].res[1].ok
  /\ \E i \in DOMAIN tasks : tasks[i].kind = "other" /\ tasks[i].pc = "ignored"

\* attempt i ends in this step
Ends(i) == tasks[i].pc \notin Ended /\ tasks'[i].pc \in Ended

\* C18 (as claimed): when resetAll (Escape) ran while a capture was under
\* way, the later end of that capture (reply, decode or error) leaves preview
\* and mode as they are.
C18_CancelDiscardsResult ==
  [][\A i \in DOMAIN tasks :
       (tasks[i].cancelled /\ Ends(i)) => (preview' = preview /\ mode' = mode)]_vars

\* C19 (as claimed): every capture attempt has set isCapturing back to false
\* by the step in which it ends, whatever its outcome (success, a reply with
\* ok = false, a decode error, an exception).
C19_IsCapturingReset ==
  [][\A i \in DOMAIN tasks : Ends(i) => ~isCapturing']_vars

\* C20 (as claimed): preview and domPreview are never both set.
C20_OneArtifact == ~(preview # None /\ domPreview # None)

=============================================================================
